---- MODULE Spec2Model ----
(***************************************************************************)
(* A model of IPython/core/display.py: the display() function and its      *)
(* eight display_<format> wrappers (as the sequence of calls they make on  *)
(* the Formatter and the Publisher), and the DisplayObject hierarchy       *)
(* (construction, reload(), the SVG data property, the Image accessors).   *)
(*                                                                         *)
(* Python values: a str/unicode is a TLA+ string; an optional value is a   *)
(* sequence of length at most one, None == <<>> and Some(v) == <<v>>; a    *)
(* list is a sequence.                                                     *)
(***************************************************************************)
EXTENDS Integers, Sequences, FiniteSets, TLC

VARIABLES
    call,        \* the last top-level display call: function name and arguments
    invoked,     \* the invocations of display() made by that call, in order
    events,      \* the calls that call made on the Formatter and the Publisher, in order
    constructed, \* whether a display object has been constructed
    args,        \* the arguments its constructor was given
    obj,         \* the object's attributes
    last         \* the last operation on the object: its outcome, its I/O, its input

vars == <<call, invoked, events, constructed, args, obj, last>>
dvars == <<call, invoked, events>>
ovars == <<constructed, args, obj, last>>

None == <<>>
Some(v) == <<v>>

(***************************************************************************)
(* str methods, computed character by character.                           *)
(***************************************************************************)
StartsWith(s, p) == Len(s) >= Len(p) /\ SubSeq(s, 1, Len(p)) = p
EndsWith(s, p) == Len(s) >= Len(p) /\ SubSeq(s, Len(s) - Len(p) + 1, Len(s)) = p
CharAt(s, i) == SubSeq(s, i, i)

UpperAlpha == "ABCDEFGHIJKLMNOPQRSTUVWXYZ"
LowerAlpha == "abcdefghijklmnopqrstuvwxyz"
LowerChar(c) ==
    IF \E i \in 1..Len(UpperAlpha) : CharAt(UpperAlpha, i) = c
    THEN CharAt(LowerAlpha, CHOOSE i \in 1..Len(UpperAlpha) : CharAt(UpperAlpha, i) = c)
    ELSE c

RECURSIVE Lower(_)
Lower(s) == IF s = "" THEN "" ELSE LowerChar(CharAt(s, 1)) \o Lower(SubSeq(s, 2, Len(s)))

\* The first index >= i at which character c stands in s, 0 when there is none.
IndexFrom(s, c, i) ==
    LET hits == {j \in i..Len(s) : CharAt(s, j) = c}
    IN  IF hits = {} THEN 0 ELSE CHOOSE j \in hits : \A k \in hits : j <= k

\* The last index at which character c stands in s, 0 when there is none.
LastIndex(s, c) ==
    LET hits == {j \in 1..Len(s) : CharAt(s, j) = c}
    IN  IF hits = {} THEN 0 ELSE CHOOSE j \in hits : \A k \in hits : j >= k

\* s.split(c)[-1]
AfterLast(s, c) == SubSeq(s, LastIndex(s, c) + 1, Len(s))

\* s.split(c)
RECURSIVE Split(_, _)
Split(s, c) ==
    LET j == IndexFrom(s, c, 1)
    IN  IF j = 0 THEN <<s>> ELSE <<SubSeq(s, 1, j - 1)>> \o Split(SubSeq(s, j + 1, Len(s)), c)

\* s.strip()
RECURSIVE Strip(_)
Strip(s) ==
    IF s = "" THEN ""
    ELSE IF CharAt(s, 1) = " " THEN Strip(SubSeq(s, 2, Len(s)))
    ELSE IF CharAt(s, Len(s)) = " " THEN Strip(SubSeq(s, 1, Len(s) - 1))
    ELSE s


ListToSet(l) == {l[i] : i \in 1..Len(l)}

(***************************************************************************)
(* display() and the display_<format> wrappers.                            *)
(***************************************************************************)
MaxObjs == 2

Objs == {"o1", "o2", "o3"}
ObjSeqs == UNION {[1..n -> Objs] : n \in 0..MaxObjs}
Filters == {None, Some(<<"text/plain">>), Some(<<"text/html", "image/png">>)}

DisplaySource == "IPython.core.display.display"

\* The mapping the Formatter returns for one call: an opaque value that
\* is told apart by the call that produced it.
FormatDict(o, include, exclude) ==
    [of |-> o, include |-> include, exclude |-> exclude]

FormatEvent(o, include, exclude) ==
    [fn |-> "format", obj |-> o, include |-> include, exclude |-> exclude,
     source |-> "", data |-> None]
PublishEvent(source, fd) ==
    [fn |-> "publish", obj |-> "", include |-> None, exclude |-> None,
     source |-> source, data |-> Some(fd)]
RawEvent(fn, o) ==
    [fn |-> fn, obj |-> o, include |-> None, exclude |-> None,
     source |-> "", data |-> None]

\* All objects are formatted first, and published afterwards.
DisplayLoopBuffered(objs, include, exclude) ==
    [i \in 1..Len(objs) |-> FormatEvent(objs[i], include, exclude)]
    \o [i \in 1..Len(objs) |->
           PublishEvent(DisplaySource, FormatDict(objs[i], include, exclude))]

\* for obj in objs: format_dict = format(obj, ...); publish(tag, format_dict)
RECURSIVE DisplayLoop(_, _, _)
DisplayLoop(objs, include, exclude) ==
    IF objs = <<>> THEN <<>>
    ELSE <<FormatEvent(Head(objs), include, exclude),
           PublishEvent(DisplaySource, FormatDict(Head(objs), include, exclude))>>
         \o DisplayLoop(Tail(objs), include, exclude)

\* for obj in objs: publish_<format>(obj)
RECURSIVE RawLoop(_, _)
RawLoop(publisher, objs) ==
    IF objs = <<>> THEN <<>>
    ELSE <<RawEvent(publisher, Head(objs))>> \o RawLoop(publisher, Tail(objs))

Call(fn, objs, raw, include, exclude) ==
    [fn |-> fn, objs |-> objs, raw |-> raw, include |-> include, exclude |-> exclude]
Invocation(objs, include, exclude) ==
    [objs |-> objs, include |-> include, exclude |-> exclude]

display ==
    \E objs \in ObjSeqs, include \in Filters, exclude \in Filters :
        /\ call' = Call("display", objs, FALSE, include, exclude)
        /\ invoked' = <<Invocation(objs, include, exclude)>>
        /\ events' = DisplayLoop(objs, include, exclude)
        /\ UNCHANGED ovars

\* The include list without 'text/plain'.
IncludeOfFormatOnly(fn) ==
    CASE fn = "display_pretty" -> <<"text/plain">>
      [] fn = "display_html" -> <<"text/html">>
      [] fn = "display_svg" -> <<"image/svg+xml">>
      [] fn = "display_png" -> <<"image/png">>
      [] fn = "display_jpeg" -> <<"image/jpeg">>
      [] fn = "display_latex" -> <<"text/latex">>
      [] fn = "display_json" -> <<"application/json">>
      [] fn = "display_javascript" -> <<"application/javascript">>

\* The include list a wrapper passes to display() when raw is false.
IncludeOf(fn) ==
    CASE fn = "display_pretty" -> <<"text/plain">>
      [] fn = "display_html" -> <<"text/plain", "text/html">>
      [] fn = "display_svg" -> <<"text/plain", "image/svg+xml">>
      [] fn = "display_png" -> <<"text/plain", "image/png">>
      [] fn = "display_jpeg" -> <<"text/plain", "image/jpeg">>
      [] fn = "display_latex" -> <<"text/plain", "text/latex">>
      [] fn = "display_json" -> <<"text/plain", "application/json">>
      [] fn = "display_javascript" -> <<"text/plain", "application/javascript">>

\* The body shared by the eight wrappers: raw = kwargs.pop('raw', False);
\* if raw: publish each object; else: display(*objs, include=[...]).
Wrapper(fn, publisher, objs, raw) ==
    /\ call' = Call(fn, objs, raw, None, None)
    /\ IF raw
       THEN /\ invoked' = <<>>
            /\ events' = RawLoop(publisher, objs)
       ELSE /\ invoked' = <<Invocation(objs, Some(IncludeOf(fn)), None)>>
            /\ events' = DisplayLoop(objs, Some(IncludeOf(fn)), None)
    /\ UNCHANGED ovars

display_pretty ==
    \E objs \in ObjSeqs, raw \in BOOLEAN : Wrapper("display_pretty", "publish_pretty", objs, raw)
display_html ==
    \E objs \in ObjSeqs, raw \in BOOLEAN : Wrapper("display_html", "publish_html", objs, raw)
display_svg ==
    \E objs \in ObjSeqs, raw \in BOOLEAN : Wrapper("display_svg", "publish_svg", objs, raw)
display_png ==
    \E objs \in ObjSeqs, raw \in BOOLEAN : Wrapper("display_png", "publish_png", objs, raw)
display_jpeg ==
    \E objs \in ObjSeqs, raw \in BOOLEAN : Wrapper("display_jpeg", "publish_jpeg", objs, raw)
display_latex ==
    \E objs \in ObjSeqs, raw \in BOOLEAN : Wrapper("display_latex", "publish_latex", objs, raw)
display_json ==
    \E objs \in ObjSeqs, raw \in BOOLEAN : Wrapper("display_json", "publish_json", objs, raw)
display_javascript ==
    \E objs \in ObjSeqs, raw \in BOOLEAN :
        Wrapper("display_javascript", "publish_javascript", objs, raw)

NoCall == Call("", <<>>, FALSE, None, None)
NoObject ==
    [cls |-> "", data |-> None, url |-> None, filename |-> None,
     format |-> None, embed |-> FALSE]

InitDisplay ==
    /\ call = NoCall
    /\ invoked = <<>>
    /\ events = <<>>

NextDisplay ==
    \/ display
    \/ display_pretty
    \/ display_html
    \/ display_svg
    \/ display_png
    \/ display_jpeg
    \/ display_latex
    \/ display_json
    \/ display_javascript

(***************************************************************************)
(* xml.dom.minidom, on the documents used here: an optional XML            *)
(* declaration, then one root element; elements with at most one           *)
(* attribute, written name="value"; text without markup characters.  A     *)
(* parsed document is the sequence of its tokens (tags and text runs) in   *)
(* document order, and an element is the index of its start tag.           *)
(***************************************************************************)
\* The tags and the text runs of s from index i on, as strings.
RECURSIVE Lex(_, _)
LexTo(s, i, j, next) ==
    IF j = 0 THEN <<SubSeq(s, i, Len(s))>> ELSE <<SubSeq(s, i, next - 1)>> \o Lex(s, next)
Lex(s, i) ==
    IF i > Len(s) THEN <<>>
    ELSE IF CharAt(s, i) = "<" THEN LexTo(s, i, IndexFrom(s, ">", i), IndexFrom(s, ">", i) + 1)
    ELSE LexTo(s, i, IndexFrom(s, "<", i), IndexFrom(s, "<", i))

Kind(t) ==
    IF StartsWith(t, "<") /\ EndsWith(t, ">")
    THEN (IF StartsWith(t, "<?") THEN "decl"
          ELSE IF StartsWith(t, "</") THEN "close"
          ELSE IF EndsWith(t, "/>") THEN "empty"
          ELSE "open")
    ELSE IF StartsWith(t, "<") THEN "broken" ELSE "text"

\* What stands between the angle brackets: the name, then the attributes.
Interior(t, kind) ==
    SubSeq(t, IF kind = "close" THEN 3 ELSE 2,
              IF kind = "empty" THEN Len(t) - 2 ELSE Len(t) - 1)

HasPrefix(n) == IndexFrom(n, ":", 1) > 0
PrefixOf(n) == SubSeq(n, 1, IndexFrom(n, ":", 1) - 1)
AttrName(a) == SubSeq(a, 1, IndexFrom(a, "=", 1) - 1)

\* A token: its text, its kind, and for a tag its name and attribute names.
TokenParts(t, kind, parts) ==
    [text |-> t, kind |-> kind,
     name |-> IF kind = "text" THEN "" ELSE Head(parts),
     attrs |-> IF kind = "text" THEN <<>>
               ELSE [k \in 1..(Len(parts) - 1) |-> AttrName(parts[k + 1])]]
TokenOfKind(t, kind) == TokenParts(t, kind, Split(Interior(t, kind), " "))
Token(t) == TokenOfKind(t, Kind(t))
Tokenize(raw) == [k \in 1..Len(raw) |-> Token(raw[k])]

\* The namespace prefixes a start tag uses, in its name and its attributes.
PrefixesUsed(t) ==
    {PrefixOf(n) : n \in {m \in {t.name} \cup ListToSet(t.attrs) :
                             HasPrefix(m) /\ PrefixOf(m) # "xmlns"}}

Declares(t, p) == \E k \in 1..Len(t.attrs) : t.attrs[k] = "xmlns:" \o p

\* Every prefix of start tag t is declared by t or by an open ancestor.
PrefixesBound(t, stack) ==
    \A p \in PrefixesUsed(t) :
        \E k \in 1..Len(stack) + 1 : Declares(Append(stack, t)[k], p)

\* Expat's well-formedness: the declaration first if at all, one root
\* element, no text outside it, tags balanced, prefixes bound.
RECURSIVE WellFormed(_, _, _, _)
WellFormed(ts, i, stack, rooted) ==
    IF i > Len(ts) THEN stack = <<>> /\ rooted
    ELSE /\ CASE ts[i].kind = "decl" -> i = 1
              [] ts[i].kind = "close" ->
                    stack # <<>> /\ stack[Len(stack)].name = ts[i].name
              [] ts[i].kind \in {"open", "empty"} ->
                    (stack # <<>> \/ ~rooted) /\ PrefixesBound(ts[i], stack)
              [] ts[i].kind = "text" -> stack # <<>>
              [] OTHER -> FALSE
         /\ WellFormed(ts, i + 1,
                       CASE ts[i].kind = "close" -> SubSeq(stack, 1, Len(stack) - 1)
                         [] ts[i].kind = "open" -> Append(stack, ts[i])
                         [] OTHER -> stack,
                       rooted \/ ts[i].kind \in {"open", "empty"})

\* minidom.parseString(svg): the document, or an ExpatError.
Parsed(ts) == [ok |-> WellFormed(ts, 1, <<>>, FALSE), doc |-> ts]
parseString(s) == Parsed(Tokenize(Lex(s, 1)))

\* x.getElementsByTagName(name): the elements of that tag name, in
\* document order.
RECURSIVE ElementsFrom(_, _, _)
ElementsFrom(doc, name, i) ==
    IF i > Len(doc) THEN <<>>
    ELSE (IF doc[i].kind \in {"open", "empty"} /\ doc[i].name = name
          THEN <<i>> ELSE <<>>)
         \o ElementsFrom(doc, name, i + 1)
getElementsByTagName(doc, name) == ElementsFrom(doc, name, 1)

\* The index of the end tag of the element that starts at i.
Depth(doc, i, j) ==
    Cardinality({k \in i..j : doc[k].kind = "open"})
    - Cardinality({k \in i..j : doc[k].kind = "close"})
ElementEnd(doc, i) ==
    IF doc[i].kind = "empty" THEN i
    ELSE CHOOSE j \in i..Len(doc) :
             /\ Depth(doc, i, j) = 0
             /\ \A k \in i..(j - 1) : Depth(doc, i, k) # 0

\* Element.writexml: an element without children is written <name/>.
RECURSIVE WriteXml(_)
WriteXml(ts) ==
    IF ts = <<>> THEN ""
    ELSE IF Len(ts) >= 2 /\ ts[1].kind = "open" /\ ts[2].kind = "close"
    THEN SubSeq(ts[1].text, 1, Len(ts[1].text) - 1) \o "/>"
         \o WriteXml(SubSeq(ts, 3, Len(ts)))
    ELSE ts[1].text \o WriteXml(Tail(ts))

\* found_svg[0].toxml()
toxml(doc, i) == WriteXml(SubSeq(doc, i, ElementEnd(doc, i)))

(***************************************************************************)
(* str.decode(encoding, 'replace').  A body is a byte string; the          *)
(* character "#" stands for the byte 0xFF, which no UTF-8 sequence holds   *)
(* and 'replace' turns into U+FFFD, written "?" here, and which Latin-1    *)
(* maps to the letter written "y" here.                                    *)
(***************************************************************************)
Codecs == {"utf-8", "latin-1"}
KnownCodec(enc) == Lower(enc) \in Codecs

RECURSIVE Decode(_, _)
Decode(s, enc) ==
    IF s = "" THEN ""
    ELSE (IF CharAt(s, 1) = "#"
          THEN (IF Lower(enc) = "utf-8" THEN "?" ELSE "y")
          ELSE CharAt(s, 1))
         \o Decode(SubSeq(s, 2, Len(s)), enc)

(***************************************************************************)
(* The display objects.  An operation returns a result: the exception it   *)
(* raised ("" when it returned), the object as it left it, the exception   *)
(* it caught, the I/O it did and the input that I/O delivered.             *)
(***************************************************************************)
NoExc == ""
\* Pretty, HTML, Math, JSON and Javascript add one accessor that returns
\* data to DisplayObject and nothing else.
PlainClasses == {"Pretty", "HTML", "Math", "JSON", "Javascript"}
Classes == PlainClasses \cup {"SVG", "Image"}

Result(exc, o, caught, io, file, resp) ==
    [exc |-> exc, o |-> o, caught |-> caught, io |-> io, file |-> file, resp |-> resp]
Returned(o) == Result(NoExc, o, NoExc, <<>>, None, None)
Raised(exc, o) == Result(exc, o, NoExc, <<>>, None, None)

\* SVG's data.setter, from the parsed document on.
SVG_found(o, svg, x, found_svg) ==
    IF found_svg # <<>> THEN Returned([o EXCEPT !.data = Some(toxml(x.doc, found_svg[1]))])
    ELSE Returned([o EXCEPT !.data = svg])
SVG_parsed(o, svg, x) ==
    IF ~x.ok THEN Raised("ExpatError", o)
    ELSE SVG_found(o, svg, x, getElementsByTagName(x.doc, "svg"))

\* SVG's data.setter
SVG_data(o, svg) ==
    IF svg = None THEN Returned([o EXCEPT !.data = None])
    ELSE SVG_parsed(o, svg, parseString(svg[1]))

\* self.data = v
SetData(o, v) ==
    IF o.cls = "SVG" THEN SVG_data(o, v) ELSE Returned([o EXCEPT !.data = v])

\* The for loop over response.headers['content-type'].split(';')
RECURSIVE CharsetOf(_)
CharsetIn(sub, rest) ==
    IF StartsWith(sub, "charset") THEN Some(Strip(AfterLast(sub, "="))) ELSE CharsetOf(rest)
CharsetOf(subs) ==
    IF subs = <<>> THEN None ELSE CharsetIn(Strip(Head(subs)), Tail(subs))

\* if encoding: self.data = self.data.decode(encoding, 'replace')
FetchDecode(r1, encoding) ==
    IF encoding = None \/ encoding = Some("") THEN r1
    ELSE IF ~KnownCodec(encoding[1]) THEN Raised("LookupError", r1.o)
    ELSE SetData(r1.o, Some(Decode(r1.o.data[1], encoding[1])))

\* The try block after self.data = response.read(): the header lookup.
FetchHeader(r1, resp) ==
    IF r1.exc # NoExc THEN r1
    ELSE IF resp.ctype = None THEN Raised("KeyError", r1.o)
    ELSE FetchDecode(r1, CharsetOf(Split(resp.ctype[1], ";")))

\* The body of reload()'s try block.
Fetch(o, resp) ==
    IF ~resp.ok THEN Raised("URLError", o)
    ELSE FetchHeader(SetData(o, Some(resp.body)), resp)

ReadFlags(cls) == IF cls = "Image" THEN "rb" ELSE "r"
OpenEvent(filename, flags) == [fn |-> "open", target |-> filename, flags |-> flags]
UrlopenEvent(url) == [fn |-> "urlopen", target |-> url, flags |-> ""]

\* The handler lets the exception through instead of clearing data.
ExceptReraise(r) == r

\* except: self.data = None
Except(r) ==
    IF r.exc = NoExc THEN r
    ELSE [SetData(r.o, None) EXCEPT !.caught = r.exc]

\* The url is tried before the filename.
DisplayObject_reloadUrlFirst(o, file, resp) ==
    IF o.url # None
    THEN [Except(Fetch(o, resp)) EXCEPT
              !.io = <<UrlopenEvent(o.url[1])>>, !.resp = Some(resp)]
    ELSE IF o.filename # None
    THEN IF file = None
         THEN [Raised("IOError", o) EXCEPT
                   !.io = <<OpenEvent(o.filename[1], ReadFlags(o.cls))>>]
         ELSE [SetData(o, file) EXCEPT
                   !.io = <<OpenEvent(o.filename[1], ReadFlags(o.cls))>>, !.file = file]
    ELSE Returned(o)

\* DisplayObject.reload
DisplayObject_reload(o, file, resp) ==
    IF o.filename # None
    THEN IF file = None
         THEN [Raised("IOError", o) EXCEPT
                   !.io = <<OpenEvent(o.filename[1], ReadFlags(o.cls))>>]
         ELSE [SetData(o, file) EXCEPT
                   !.io = <<OpenEvent(o.filename[1], ReadFlags(o.cls))>>, !.file = file]
    ELSE IF o.url # None
    THEN [Except(Fetch(o, resp)) EXCEPT
              !.io = <<UrlopenEvent(o.url[1])>>, !.resp = Some(resp)]
    ELSE Returned(o)

\* Image.reload without the test of embed.
Image_reloadAlways(o, file, resp) == DisplayObject_reload(o, file, resp)

\* Image.reload
Image_reload(o, file, resp) ==
    IF o.embed THEN DisplayObject_reload(o, file, resp) ELSE Returned(o)

reload(o, file, resp) ==
    IF o.cls = "Image" THEN Image_reload(o, file, resp)
    ELSE DisplayObject_reload(o, file, resp)

IsHttp(data) == data # None /\ StartsWith(data[1], "http")

\* self.url = url; self.filename = None if filename is None else unicode(filename)
InitSources(r, url, filename) ==
    IF r.exc # NoExc THEN r
    ELSE [r EXCEPT !.o = [r.o EXCEPT !.url = url, !.filename = filename]]

\* The http test dropped: data is always kept as data.
InitFieldsNoHttp(o, data, url, filename) == InitSources(SetData(o, data), url, filename)

\* The assignments of DisplayObject.__init__, before its reload().
InitFields(o, data, url, filename) ==
    IF IsHttp(data)
    THEN SetData([o EXCEPT !.url = data, !.filename = None], None)
    ELSE InitSources(SetData(o, data), url, filename)

\* self.reload(), the last statement of DisplayObject.__init__
InitReload(r, file, resp) ==
    IF r.exc # NoExc THEN r ELSE reload(r.o, file, resp)

\* DisplayObject.__init__
DisplayObject__init__(o, data, url, filename, file, resp) ==
    InitReload(InitFields(o, data, url, filename), file, resp)

\* Image._find_ext
_find_ext(s) == Lower(AfterLast(s, "."))

\* The extension Image.__init__ looks at: an option, or the AttributeError
\* of None.startswith.
ImageExt(data, url, filename) ==
    IF filename # None THEN [exc |-> NoExc, ext |-> Some(_find_ext(filename[1]))]
    ELSE IF url # None THEN [exc |-> NoExc, ext |-> Some(_find_ext(url[1]))]
    ELSE IF data = None THEN [exc |-> "AttributeError", ext |-> None]
    ELSE IF StartsWith(data[1], "http") THEN [exc |-> NoExc, ext |-> Some(_find_ext(data[1]))]
    ELSE [exc |-> NoExc, ext |-> None]

\* The extension never overrides the caller's format.
ImageFormatIgnoreExt(ext, format) == Lower(format)

\* self.format, from the extension and the caller's format.
ImageFormat(ext, format) ==
    Lower(IF ext = Some("png") THEN "png"
          ELSE IF ext = Some("jpg") \/ ext = Some("jpeg") THEN "jpeg"
          ELSE format)

\* self.embed
ImageEmbed(filename, embed) == IF filename # None THEN TRUE ELSE embed

\* Image.__init__, from the extension on.
ImageInit(o, e, data, url, filename, format, embed, file, resp) ==
    IF e.exc # NoExc THEN Raised(e.exc, o)
    ELSE DisplayObject__init__(
             [o EXCEPT !.format = Some(ImageFormat(e.ext, format)),
                       !.embed = ImageEmbed(filename, embed)],
             data, url, filename, file, resp)

\* Image.__init__
Image__init__(o, data, url, filename, format, embed, file, resp) ==
    ImageInit(o, ImageExt(data, url, filename), data, url, filename, format, embed,
              file, resp)

\* The accessors; None is "no representation".
Image_repr_html_(o) ==
    IF ~o.embed
    THEN Some("<img src=\"" \o (IF o.url = None THEN "None" ELSE o.url[1]) \o "\" />")
    ELSE None
Image_repr_png_(o) == IF o.embed /\ o.format = Some("png") THEN o.data ELSE None
Image_repr_jpeg_(o) ==
    IF o.embed /\ (o.format = Some("jpeg") \/ o.format = Some("jpg")) THEN o.data ELSE None

(***************************************************************************)
(* The inputs: constructor arguments, file contents, HTTP responses.       *)
(***************************************************************************)
XmlDeclSvg == "<?xml version=\"1.0\"?><svg><g></g></svg>"
XmlWrappedSvg == "<w xmlns:x=\"u\"><svg><x:a/></svg></w>"
XmlTwoSvg == "<w><svg>a</svg><svg>b</svg></w>"
XmlNoSvg == "<doc><g/></doc>"
Malformed == "<svg><g></svg>"
PlainText == "hello"
HttpData == "http://h/d.jpg"

InvalidUtf8 == "a#b"

Contents == {XmlDeclSvg, XmlWrappedSvg, InvalidUtf8}
DataArgs == {None} \cup {Some(s) : s \in {XmlDeclSvg, XmlTwoSvg, PlainText, HttpData}}
Assigned == {None} \cup {Some(s) : s \in {XmlWrappedSvg, XmlNoSvg, Malformed}}
UrlArgs == {None, Some("http://h/u.png"), Some("http://h/v")}
FilenameArgs == {None, Some("f.JPG"), Some("g.tar.png"), Some("jpeg")}
FormatArgs == {"JPEG", "gif"}

Files == {None} \cup {Some(c) : c \in Contents}
ContentTypes ==
    {None, Some("text/html"), Some("text/html; charset=utf-8"),
     Some("image/svg+xml;charset = Latin-1"), Some("text/html; charset=bogus")}
FailedResponse == [ok |-> FALSE, body |-> "", ctype |-> None]
Responses ==
    {FailedResponse} \cup {[ok |-> TRUE, body |-> b, ctype |-> c] : b \in Contents, c \in ContentTypes}

\* What the outside world answers to one operation: a file's content (None
\* when it cannot be opened) and an HTTP response.
Envs ==
    {[file |-> f, resp |-> FailedResponse] : f \in Files}
    \cup {[file |-> None, resp |-> r] : r \in Responses}

NoArgs ==
    [cls |-> "", data |-> None, url |-> None, filename |-> None,
     format |-> "", embed |-> FALSE]
Last(op, r, input) ==
    [op |-> op, exc |-> r.exc, caught |-> r.caught, io |-> r.io, file |-> r.file,
     resp |-> r.resp, input |-> input]
NoLast == Last("", Returned(NoObject), None)

\* What an operation that ended with result r leaves behind.
Finish(op, r, input) ==
    /\ obj' = IF op = "__init__" /\ r.exc # NoExc THEN NoObject ELSE r.o
    /\ constructed' = IF op = "__init__" THEN r.exc = NoExc ELSE constructed
    /\ last' = Last(op, r, input)
    /\ UNCHANGED dvars

\* cls(data, url, filename) for a class other than Image
Construct ==
    \E cls \in Classes \ {"Image"}, data \in DataArgs, url \in UrlArgs,
       filename \in FilenameArgs, env \in Envs :
        /\ ~constructed /\ args = NoArgs
        /\ args' = [cls |-> cls, data |-> data, url |-> url, filename |-> filename,
                    format |-> "", embed |-> FALSE]
        /\ Finish("__init__",
                  DisplayObject__init__([NoObject EXCEPT !.cls = cls],
                                        data, url, filename, env.file, env.resp),
                  None)

\* Image(data, url, filename, format, embed)
ConstructImage ==
    \E data \in DataArgs, url \in UrlArgs, filename \in FilenameArgs,
       format \in FormatArgs, embed \in BOOLEAN, env \in Envs :
        /\ ~constructed /\ args = NoArgs
        /\ args' = [cls |-> "Image", data |-> data, url |-> url, filename |-> filename,
                    format |-> format, embed |-> embed]
        /\ Finish("__init__",
                  Image__init__([NoObject EXCEPT !.cls = "Image"],
                                data, url, filename, format, embed, env.file, env.resp),
                  None)

\* obj.reload()
Reload ==
    \E env \in Envs :
        /\ constructed
        /\ UNCHANGED args
        /\ Finish("reload", reload(obj, env.file, env.resp), None)

\* obj.data = v
AssignData ==
    \E v \in Assigned :
        /\ constructed
        /\ UNCHANGED args
        /\ Finish("data", SetData(obj, v), v)

InitObject ==
    /\ constructed = FALSE
    /\ args = NoArgs
    /\ obj = NoObject
    /\ last = NoLast

NextObject ==
    \/ Construct
    \/ ConstructImage
    \/ Reload
    \/ AssignData

Init == InitDisplay /\ InitObject

\* The display functions alone, and the display objects alone.
SpecDisplay == Init /\ [][NextDisplay]_vars
SpecObject == Init /\ [][NextObject]_vars

Next == NextDisplay \/ NextObject
Spec == Init /\ [][Next]_vars

(***************************************************************************)
(* The claims.                                                             *)
(***************************************************************************)
Wrappers ==
    {"display_pretty", "display_html", "display_svg", "display_png", "display_jpeg",
     "display_latex", "display_json", "display_javascript"}

\* The MIME type and the raw-publish entry point the interface gives each wrapper.
MimeOf(fn) ==
    CASE fn = "display_pretty" -> "text/plain"
      [] fn = "display_html" -> "text/html"
      [] fn = "display_svg" -> "image/svg+xml"
      [] fn = "display_png" -> "image/png"
      [] fn = "display_jpeg" -> "image/jpeg"
      [] fn = "display_latex" -> "text/latex"
      [] fn = "display_json" -> "application/json"
      [] fn = "display_javascript" -> "application/javascript"
RawPublishOf(fn) == "publish_" \o SubSeq(fn, Len("display_") + 1, Len(fn))

\* C1: every invocation of display() calls the Formatter once on each
\* object, in argument order and with the caller's include and exclude,
\* and publishes the mapping returned for an object, under the source tag
\* 'IPython.core.display.display', before it formats the next object; n
\* objects give exactly n publish events, none gives none.
C1_DisplayInOrder ==
    /\ call.fn = "display" =>
           invoked = <<[objs |-> call.objs, include |-> call.include,
                        exclude |-> call.exclude]>>
    /\ \A k \in 1..Len(invoked) :
           /\ Len(events) = 2 * Len(invoked[k].objs)
           /\ Cardinality({i \in 1..Len(events) : events[i].fn = "publish"})
                  = Len(invoked[k].objs)
           /\ \A i \in 1..Len(invoked[k].objs) :
                  /\ events[2 * i - 1].fn = "format"
                  /\ events[2 * i - 1].obj = invoked[k].objs[i]
                  /\ events[2 * i - 1].include = invoked[k].include
                  /\ events[2 * i - 1].exclude = invoked[k].exclude
                  /\ events[2 * i].fn = "publish"
                  /\ events[2 * i].source = "IPython.core.display.display"
                  /\ events[2 * i].data
                         = Some(FormatDict(invoked[k].objs[i], invoked[k].include,
                                           invoked[k].exclude))

C1_Witness ==
    /\ call.fn = "display"
    /\ Len(call.objs) = 2
    /\ call.objs[1] # call.objs[2]
    /\ call.include # None
    /\ Len(events) = 4

\* C2: a wrapper called with raw=True sends each object, once and in
\* argument order, to its format's raw-publish entry point and never calls
\* the Formatter; called with raw=False it calls no raw-publish entry point
\* and invokes display() on the same objects with an include filter whose
\* set is {'text/plain', the format's MIME type} and no exclude filter.
C2_Wrappers ==
    call.fn \in Wrappers =>
        IF call.raw
        THEN /\ invoked = <<>>
             /\ Len(events) = Len(call.objs)
             /\ \A i \in 1..Len(events) :
                    /\ events[i].fn = RawPublishOf(call.fn)
                    /\ events[i].obj = call.objs[i]
        ELSE /\ \A i \in 1..Len(events) : events[i].fn \in {"format", "publish"}
             /\ Len(invoked) = 1
             /\ invoked[1].objs = call.objs
             /\ invoked[1].include # None
             /\ ListToSet(invoked[1].include[1]) = {"text/plain", MimeOf(call.fn)}
             /\ invoked[1].exclude = None

C2_Witness ==
    /\ call.fn = "display_jpeg"
    /\ ~call.raw
    /\ Len(call.objs) = 2
    /\ Len(events) = 4

\* The successful fetch of the last operation, if it made one.
Fetched == last.resp # None /\ last.resp[1].ok
FetchFailed == last.resp # None /\ ~last.resp[1].ok
Loaded == last.op \in {"__init__", "reload"}

TextAfterLastDot(s) ==
    IF s = None THEN None
    ELSE Some(Lower(SubSeq(s[1], LastIndex(s[1], ".") + 1, Len(s[1]))))
FormatFor(ext, format) ==
    IF ext = Some("png") THEN "png"
    ELSE IF ext \in {Some("jpg"), Some("jpeg")} THEN "jpeg"
    ELSE format

\* C4 as claimed: the format of an Image follows the extension of the
\* filename, or of the url when no filename is given, when that extension
\* is png, jpg or jpeg, and is the caller's format in every other case,
\* so also when neither filename nor url is given.  (Read in the claim's
\* favour: formats are compared case-folded.)
C4_Original ==
    constructed /\ args.cls = "Image" =>
        obj.format
            = Some(Lower(FormatFor(TextAfterLastDot(IF args.filename # None
                                                    THEN args.filename ELSE args.url),
                                   args.format)))

\* The name whose extension decides, as amended.
FormatSource ==
    IF args.filename # None THEN args.filename
    ELSE IF args.url # None THEN args.url
    ELSE IF IsHttp(args.data) THEN args.data
    ELSE None

\* C4, amended: for an Image whose construction completes, the name that
\* decides is the filename, else the url, else data when data begins with
\* 'http'; the text after its last '.' (all of it when it holds no '.'),
\* lower-cased, gives format 'png' when it is 'png' and 'jpeg' when it is
\* 'jpg' or 'jpeg', whatever the caller's format; in every other case the
\* format is the caller's format lower-cased.  With no filename, no url
\* and no data the constructor raises AttributeError and no Image results.
C4_FormatInference ==
    /\ constructed /\ args.cls = "Image" =>
           obj.format = Some(Lower(FormatFor(TextAfterLastDot(FormatSource), args.format)))
    /\ /\ args.cls = "Image" /\ last.op = "__init__"
       /\ args.filename = None /\ args.url = None /\ args.data = None
       => ~constructed /\ last.exc = "AttributeError"

C4_Witness ==
    /\ constructed
    /\ args.cls = "Image"
    /\ args.filename = None
    /\ args.url = None
    /\ args.data = Some(HttpData)
    /\ args.format = "gif"
    /\ obj.format = Some("jpeg")

\* C5 in a state: embed, the I/O of the last operation, the accessors.
C5_EmbedState ==
    constructed /\ args.cls = "Image" =>
        /\ obj.embed = (IF args.filename # None THEN TRUE ELSE args.embed)
        /\ ~obj.embed =>
               /\ Loaded => last.io = <<>> /\ last.file = None /\ last.resp = None
               /\ last.op = "__init__" =>
                      obj.data = IF IsHttp(args.data) THEN None ELSE args.data
               /\ Image_repr_html_(obj)
                      = Some("<img src=\"" \o (IF obj.url = None THEN "None" ELSE obj.url[1])
                             \o "\" />")
               /\ Image_repr_png_(obj) = None
               /\ Image_repr_jpeg_(obj) = None
        /\ obj.embed => Image_repr_html_(obj) = None
\* C5 in a step: reload() of an Image that does not embed keeps data.
C5_ReloadKeepsData ==
    constructed /\ args.cls = "Image" /\ ~obj.embed /\ last'.op = "reload" =>
        obj'.data = obj.data

\* C5: an Image's embed is true when a filename was passed and is the
\* caller's embed otherwise.  While embed is false, construction and
\* reload() open no file and fetch nothing, construction leaves data as
\* __init__ assigned it and reload() leaves data as it was, _repr_html_
\* is an <img> tag that references url, and _repr_png_ and _repr_jpeg_ are
\* None; while embed is true _repr_html_ is None.
C5_Embed == []C5_EmbedState /\ [][C5_ReloadKeepsData]_vars

C5_Witness ==
    /\ constructed
    /\ args.cls = "Image"
    /\ ~obj.embed
    /\ last.op = "reload"
    /\ obj.url # None
    /\ obj.data # None

\* What the last operation wrote into data, if it wrote: the value
\* assigned, or the content read from the file.
Written ==
    IF last.op = "data" THEN last.input
    ELSE IF Loaded THEN last.file
    ELSE None

\* C6: when an SVG object's data is written with an input that parses as
\* XML, the stored data is the serialization of the first <svg> element of
\* the document, or the input unchanged when the document has none; and
\* writing the stored data back leaves the stored data unchanged.
C6_SvgNormalization ==
    constructed /\ args.cls = "SVG" /\ Written # None /\ last.exc = NoExc =>
        /\ getElementsByTagName(parseString(Written[1]).doc, "svg") # <<>> =>
               obj.data
                   = Some(toxml(parseString(Written[1]).doc,
                                getElementsByTagName(parseString(Written[1]).doc, "svg")[1]))
        /\ getElementsByTagName(parseString(Written[1]).doc, "svg") = <<>> =>
               obj.data = Written
        /\ SVG_data(obj, obj.data).exc = NoExc
        /\ SVG_data(obj, obj.data).o.data = obj.data

\* The source reload() is to use, as claimed.
LoadingObject == args.cls # "Image" \/ obj.embed
Completed == constructed /\ Loaded /\ last.exc = NoExc
Stored(v) == SetData(obj, v).o.data

\* C7 as claimed: when a filename was passed, a loading object's data is
\* the content read from that file, before any URL source; else when a URL
\* source is set data comes from the HTTP fetch; else reload() does nothing.
C7_Original ==
    Completed /\ LoadingObject =>
        IF args.filename # None
        THEN /\ last.io = <<OpenEvent(args.filename[1], ReadFlags(args.cls))>>
             /\ obj.data = Stored(last.file)
        ELSE IF obj.url # None
        THEN last.io = <<UrlopenEvent(obj.url[1])>>
        ELSE /\ last.io = <<>>
             /\ last.op = "__init__" => obj.data = Stored(args.data)

\* C7, amended, in a state: the source the last construction or reload()
\* used.
C7_SourceState ==
    Completed /\ LoadingObject =>
        IF IsHttp(args.data)
        THEN /\ last.io = <<UrlopenEvent(args.data[1])>>
             /\ obj.filename = None
             /\ last.caught # NoExc => obj.data = None
        ELSE IF args.filename # None
        THEN /\ last.io = <<OpenEvent(args.filename[1], ReadFlags(args.cls))>>
             /\ last.file # None
             /\ obj.data = Stored(last.file)
        ELSE IF args.url # None
        THEN /\ last.io = <<UrlopenEvent(args.url[1])>>
             /\ last.caught # NoExc => obj.data = None
        ELSE /\ last.io = <<>>
             /\ last.op = "__init__" => obj.data = Stored(args.data)
\* C7 in a step: a reload() of an object with neither source changes
\* nothing.
C7_NoSourceNoOp ==
    constructed /\ obj.filename = None /\ obj.url = None /\ last'.op = "reload" =>
        obj' = obj /\ last'.exc = NoExc

\* C7, amended: for a loading object, when data begins with 'http', data
\* is the URL source and the filename and url arguments are discarded:
\* each completed construction or reload() does one HTTP fetch of it and
\* opens no file.  Otherwise, when a filename was passed, data is the
\* content read from that file (as the class's setter stores it), before
\* any url; else when a url was passed the one piece of I/O is the HTTP
\* fetch of it, and data is None when anything in the try block raised;
\* else reload() opens and fetches nothing, construction leaves data as
\* supplied, and reload() leaves data, url and filename as they were.
C7_SourceOfTruth == []C7_SourceState /\ [][C7_NoSourceNoOp]_vars

C7_Witness ==
    /\ Completed
    /\ last.op = "reload"
    /\ args.cls = "HTML"
    /\ IsHttp(args.data)
    /\ args.filename # None
    /\ obj.data # None

Unparseable(v) == v # None /\ ~parseString(v[1]).ok

\* C8: whatever way an input that does not parse as XML reaches an SVG
\* object's data (the constructor's data argument, an assignment, the
\* content of the file, the body fetched from the url), the operation
\* raises the parse failure, and no parse failure is caught.
C8_MalformedSurfaces ==
    args.cls = "SVG" =>
        /\ last.caught # "ExpatError"
        /\ last.op = "__init__" /\ ~IsHttp(args.data) /\ Unparseable(args.data) =>
               last.exc = "ExpatError"
        /\ last.op = "data" /\ Unparseable(last.input) => last.exc = "ExpatError"
        /\ Loaded /\ Unparseable(last.file) => last.exc = "ExpatError"
        /\ Loaded /\ Fetched /\ Unparseable(Some(last.resp[1].body)) =>
               last.exc = "ExpatError"

\* C9: after a reload() whose HTTP fetch succeeded, data is the response
\* body, decoded with the charset of the content-type header when the
\* header names one, and the raw body in every other case (no charset
\* parameter, no content-type header); data is never left None.  Stated
\* for the classes that store data as assigned.
C9_FetchedBody ==
    Loaded /\ Fetched /\ args.cls # "SVG" =>
        /\ last.exc = NoExc
        /\ obj.data # None
        /\ obj.data
               = IF last.resp[1].ctype = None
                    \/ CharsetOf(Split(last.resp[1].ctype[1], ";")) = None
                 THEN Some(last.resp[1].body)
                 ELSE Some(Decode(last.resp[1].body,
                                  CharsetOf(Split(last.resp[1].ctype[1], ";"))[1]))

\* C10 in a state: the outcome of a failed fetch, and of a failed open.
C10_FailureState ==
    /\ Loaded /\ FetchFailed =>
           /\ last.exc = NoExc
           /\ last.caught = "URLError"
           /\ constructed
           /\ obj.data = None
           /\ last.op = "__init__" =>
                  /\ obj.url = IF IsHttp(args.data) THEN args.data ELSE args.url
                  /\ obj.filename = None
    /\ Loaded /\ last.io # <<>> /\ last.io[1].fn = "open" /\ last.file = None =>
           last.exc = "IOError"
\* C10 in a step: a reload() whose fetch fails keeps url and filename.
C10_ReloadKeepsSources ==
    constructed /\ last'.op = "reload" /\ last'.resp # None /\ ~last'.resp[1].ok =>
        /\ obj'.url = obj.url
        /\ obj'.filename = obj.filename
        /\ obj'.data = None

\* C10: when reload(), called directly or by the constructor, uses the url
\* and the fetch fails, the operation returns normally and data is None
\* whatever it held, with url and filename as they were; when the file
\* named by filename cannot be opened, the IOError reaches the caller.
C10_FetchFailure == []C10_FailureState /\ [][C10_ReloadKeepsSources]_vars

C10_Witness ==
    /\ constructed
    /\ last.op = "reload"
    /\ FetchFailed
    /\ args.cls = "SVG"
    /\ args.data # None
    /\ obj.data = None

====
